---- MODULE Spec2Model ----
(***************************************************************************)
(* Model of the wallet command-line tool (src/index.js): the keypair file, *)
(* the five commands, and requestAirdropWithRetry's retry/backoff loop.    *)
(* One behaviour is a sequence of invocations of the tool; an invocation   *)
(* is split at its await points, where the RPC endpoint (the environment)  *)
(* decides whether the outstanding call resolves or rejects.               *)
(***************************************************************************)
EXTENDS Integers, Sequences, FiniteSets, TLC

\* ------------------------------------------------------------- bounds
\* Largest maxRetries passed by a direct caller of requestAirdropWithRetry.
MaxRetriesArg == 3
\* Seed length in bytes of a modelled keypair (32 in the library).
SeedLen == 1
\* Largest number of signatures the endpoint returns to the history query.
MaxSigs == 2

\* ------------------------------------------------------------- constants
LAMPORTS_PER_SOL == 1000000000
DefaultMaxRetries == 5
BackoffBaseMs == 1000
HistoryLimit == 10

\* ------------------------------------------------------------- text
\* Strings the code inspects are sequences of one-character strings.
DigitChars == <<"0", "1", "2", "3", "4", "5", "6", "7", "8", "9">>

\* String.prototype.includes
Includes(s, sub) ==
    \E i \in 0..(Len(s) - Len(sub)) : SubSeq(s, i + 1, i + Len(sub)) = sub

\* String.prototype.indexOf from position `from` (1-based; 0 when absent)
IndexOfFrom(s, sub, from) ==
    LET hits == {i \in from..(Len(s) - Len(sub) + 1) :
                    SubSeq(s, i, i + Len(sub) - 1) = sub}
    IN  IF hits = {} THEN 0 ELSE CHOOSE i \in hits : \A j \in hits : i <= j

IsDigit(c) == \E d \in 1..10 : DigitChars[d] = c

DigitValue(c) == (CHOOSE d \in 1..10 : DigitChars[d] = c) - 1

\* Number.prototype.toString for a non-negative integer
RECURSIVE NumberToString(_)
NumberToString(n) ==
    IF n < 10 THEN <<DigitChars[n + 1]>>
    ELSE NumberToString(n \div 10) \o <<DigitChars[(n % 10) + 1]>>

\* value of a sequence of decimal digits
RECURSIVE DigitsToNumber(_)
DigitsToNumber(ds) ==
    IF ds = <<>> THEN 0
    ELSE 10 * DigitsToNumber(SubSeq(ds, 1, Len(ds) - 1)) + DigitValue(ds[Len(ds)])

\* length of the longest prefix of s made of digits
RECURSIVE DigitPrefixLen(_)
DigitPrefixLen(s) ==
    IF s = <<>> \/ ~IsDigit(Head(s)) THEN 0 ELSE 1 + DigitPrefixLen(Tail(s))

\* parseFloat, the option parser of --amount (src/index.js:124,148), on the
\* argument texts of the model: an optional sign and the longest run of
\* digits after it; text with no leading number is NaN.
ParseFloat(s) ==
    LET neg  == s # <<>> /\ Head(s) = "-"
        rest == IF s # <<>> /\ Head(s) \in {"-", "+"} THEN Tail(s) ELSE s
        n    == DigitPrefixLen(rest)
        v    == DigitsToNumber(SubSeq(rest, 1, n))
    IN  IF n = 0 THEN [type |-> "nan", value |-> 0]
        ELSE [type |-> "number", value |-> IF neg THEN 0 - v ELSE v]

\* ------------------------------------------------------------- keypairs
Base58Alphabet == <<"1", "2", "3", "4", "5", "6", "7", "8", "9",
        "A", "B", "C", "D", "E", "F", "G", "H", "J", "K", "L", "M", "N", "P", "Q", "R", "S",
        "T", "U", "V", "W", "X", "Y", "Z", "a", "b", "c", "d", "e", "f", "g", "h", "i", "j", "k", "m", "n", "o", "p",
        "q", "r", "s", "t", "u", "v", "w", "x", "y", "z">>

\* bytes as one big-endian number
RECURSIVE BytesToNumber(_)
BytesToNumber(bytes) ==
    IF bytes = <<>> THEN 0
    ELSE 256 * BytesToNumber(SubSeq(bytes, 1, Len(bytes) - 1)) + bytes[Len(bytes)]

RECURSIVE Base58Digits(_)
Base58Digits(n) ==
    IF n = 0 THEN <<>>
    ELSE Base58Digits(n \div 58) \o <<Base58Alphabet[(n % 58) + 1]>>

RECURSIVE LeadingZeros(_)
LeadingZeros(bytes) ==
    IF bytes = <<>> \/ Head(bytes) # 0 THEN 0 ELSE 1 + LeadingZeros(Tail(bytes))

\* PublicKey.toBase58: one "1" per leading zero byte, then the base-58 digits
ToBase58(bytes) ==
    [i \in 1..LeadingZeros(bytes) |-> "1"] \o Base58Digits(BytesToNumber(bytes))

SeedBytes == {0, 237}
Seeds == [1..SeedLen -> SeedBytes]

\* The public key the signing library derives from a seed: a fixed function
\* of the seed (ed25519 in the library).
DerivePublicKey(seed) == [i \in 1..Len(seed) |-> (seed[i] * 3 + 57) % 256]

\* Keypair.generate with the random seed made explicit
KeypairGenerate(seed) ==
    [publicKey |-> DerivePublicKey(seed), secretKey |-> seed \o DerivePublicKey(seed)]

\* Uint8Array.from
Uint8ArrayFrom(arr) == [i \in 1..Len(arr) |-> arr[i] % 256]

\* Keypair.fromSecretKey: the public key is the second half of the secret
\* key, checked against the one derived from the first half.
KeypairFromSecretKey(secretKey) ==
    LET seed == SubSeq(secretKey, 1, SeedLen)
        pub  == SubSeq(secretKey, SeedLen + 1, 2 * SeedLen)
    IN  IF Len(secretKey) = 2 * SeedLen /\ DerivePublicKey(seed) = pub
        THEN [status |-> "ok", publicKey |-> pub, secretKey |-> secretKey]
        ELSE [status |-> "throw", publicKey |-> <<>>, secretKey |-> <<>>]

\* ------------------------------------------------------------- keypair file
PublicKeyPrefix == <<"\"", "p", "u", "b", "l", "i", "c", "K", "e", "y", "\"", ":", "\"">>
SecretKeyPrefix == <<"\"", "s", "e", "c", "r", "e", "t", "K", "e", "y", "\"", ":", "[">>

\* JSON text of one number, as JSON.stringify writes it
JSONNumberDropsZero(n) == IF n = 0 THEN <<>> ELSE NumberToString(n)
JSONNumber(n) == NumberToString(n)

RECURSIVE JSONJoin(_)
JSONJoin(arr) ==
    IF arr = <<>> THEN <<>>
    ELSE IF Len(arr) = 1 THEN JSONNumber(arr[1])
    ELSE JSONNumber(arr[1]) \o <<",">> \o JSONJoin(Tail(arr))

\* JSON.stringify({ publicKey, secretKey })
JSONStringify(keypairData) ==
    <<"{">> \o PublicKeyPrefix \o keypairData.publicKey \o <<"\"", ",">>
        \o SecretKeyPrefix \o JSONJoin(keypairData.secretKey) \o <<"]", "}">>

RECURSIVE ParseNumberList(_)
ParseNumberList(s) ==
    LET n == DigitPrefixLen(s)
    IN  IF n = 0 THEN <<>>
        ELSE <<DigitsToNumber(SubSeq(s, 1, n))>>
                \o (IF n + 1 < Len(s) THEN ParseNumberList(SubSeq(s, n + 2, Len(s)))
                    ELSE <<>>)

\* JSON.parse of the keypair file
JSONParse(text) ==
    LET pkStart == IndexOfFrom(text, PublicKeyPrefix, 1) + Len(PublicKeyPrefix)
        pkEnd   == IndexOfFrom(text, <<"\"">>, pkStart)
        skStart == IndexOfFrom(text, SecretKeyPrefix, 1) + Len(SecretKeyPrefix)
        skEnd   == IndexOfFrom(text, <<"]">>, skStart)
    IN  [publicKey |-> SubSeq(text, pkStart, pkEnd - 1),
         secretKey |-> ParseNumberList(SubSeq(text, skStart, skEnd - 1))]

\* The keypair file: absent, or its text.
NoFile == [exists |-> FALSE, text |-> <<>>]
FileOf(text) == [exists |-> TRUE, text |-> text]

\* fs.existsSync(KEYPAIR_FILE)
ExistsSync(f) == f.exists

\* the record generateKeypair builds and writes
KeypairData(keypair) ==
    [publicKey |-> ToBase58(keypair.publicKey), secretKey |-> keypair.secretKey]

\* loadKeypair: exits when the file is absent, else parses it
NoKeypair == [status |-> "none", publicKey |-> <<>>, secretKey |-> <<>>]
LoadKeypairFallsBack(f) ==
    IF ~ExistsSync(f) THEN KeypairFromSecretKey(KeypairGenerate([i \in 1..SeedLen |-> 0]).secretKey)
    ELSE KeypairFromSecretKey(Uint8ArrayFrom(JSONParse(f.text).secretKey))
LoadKeypair(f) ==
    IF ~ExistsSync(f) THEN [status |-> "exit", publicKey |-> <<>>, secretKey |-> <<>>]
    ELSE KeypairFromSecretKey(Uint8ArrayFrom(JSONParse(f.text).secretKey))

\* ------------------------------------------------------------- errors
\* error.message of the failures the endpoint answers with
TooManyRequests == <<"4", "2", "9", " ", "T", "o", "o", " ", "M", "a", "n", "y", " ", "R",
      "e", "q", "u", "e", "s", "t", "s">>
ServerBusy == <<"c", "o", "d", "e", " ", "4", "2", "9", "0">>
NodeUnreachable == <<"4", " ", "2", " ", "9", " ", "d", "o", "w", "n">>
ErrorMessages == {TooManyRequests, ServerBusy, NodeUnreachable}

\* messages of the errors the code and the library raise
MaxRetriesError == <<"M", "a", "x", " ", "r", "e", "t", "r", "i", "e", "s", " ", "e", "x",
      "c", "e", "e", "d", "e", "d", " ", "f", "o", "r", " ", "a", "i", "r",
      "d", "r", "o", "p", " ", "r", "e", "q", "u", "e", "s", "t", ".">>
InsufficientFundsError == <<"I", "n", "s", "u", "f", "f", "i", "c", "i", "e", "n", "t", " ", "f",
      "u", "n", "d", "s", ".">>
NullTransactionError == <<"C", "a", "n", "n", "o", "t", " ", "r", "e", "a", "d", " ", "p", "r",
      "o", "p", "e", "r", "t", "i", "e", "s", " ", "o", "f", " ", "n", "u",
      "l", "l", " ", "(", "r", "e", "a", "d", "i", "n", "g", " ", "'", "s",
      "l", "o", "t", "'", ")">>
LibraryError == <<"I", "n", "v", "a", "l", "i", "d", " ", "p", "u", "b", "l", "i", "c",
      " ", "k", "e", "y", " ", "i", "n", "p", "u", "t">>

\* ------------------------------------------------------------- retry policy
RateLimitSignal == <<"4", "2", "9">>

\* error.message.includes('429')
IsRateLimitedAlways(message) == TRUE
IsRateLimited(message) == Includes(message, RateLimitSignal)

\* Math.pow(2, retryCount) * 1000
DelayConstant(count) == BackoffBaseMs
Delay(count) == (2 ^ count) * BackoffBaseMs

\* retryCount++
NextRetryCountSkips(count) == count + 2
NextRetryCount(count) == count + 1

\* while (retryCount < maxRetries)
LoopContinuesInclusive(count, max) == count <= max
LoopContinues(count, max) == count < max

\* ------------------------------------------------------------- arguments
Missing == [given |-> FALSE, text |-> <<>>]
Text(t) == [given |-> TRUE, text |-> t]
AmountArgs == {Missing, Text(<<"a", "b", "c">>), Text(<<"0">>), Text(<<"1">>),
               Text(<<"2">>), Text(<<"-", "1">>)}
ToArgs == {Missing, Text(<<>>), Text(<<"B", "o", "b">>)}
NoArgs == [amount |-> Missing, to |-> Missing]

\* cmd.amount: undefined without the flag, else parseFloat of its text
OptionAmount(arg) ==
    IF arg.given THEN ParseFloat(arg.text) ELSE [type |-> "undefined", value |-> 0]

\* !amount || isNaN(amount)
InvalidAmountOnlyMissing(amount) == amount.type = "undefined"
InvalidAmount(amount) ==
    \/ amount.type = "undefined"
    \/ amount.type = "nan"
    \/ amount.type = "number" /\ amount.value = 0

\* !toPublicKey
InvalidRecipient(arg) == ~arg.given \/ arg.text = <<>>

\* amountInSol * LAMPORTS_PER_SOL
AmountInLamports(amountInSol) == amountInSol * LAMPORTS_PER_SOL

\* balance < amountInLamports
InsufficientFundsInSol(bal, amountInSol) == bal < amountInSol
InsufficientFunds(bal, amountInSol) == bal < AmountInLamports(amountInSol)

\* balances the endpoint may report, in lamports
Balances == {0, 999999999, 1000000000, 2000000000}

\* ------------------------------------------------------------- state
VARIABLES
    file,               \* the keypair file at KEYPAIR_FILE
    lastGenerated,      \* the keypair the latest generateKeypair produced
    cmd,                \* the running (or last) invocation: name and arguments
    pc,                 \* where the invocation stands
    exitCode,           \* the process's exit status, read when pc = "done"
    stdout, stderr,     \* lines printed by this invocation
    keypair,            \* what loadKeypair returned to this invocation
    loadKeypairCalls,   \* calls of loadKeypair in this invocation
    log,                \* RPC calls, their outcomes and the sleeps, in order
    pending,            \* RPC calls issued and not yet settled
    retryCount, maxRetries, airdropSignature,   \* requestAirdropWithRetry
    balance,            \* sendSol / getBalance
    confirmedSignatures,    \* getTransactionHistory: how many were listed
    result              \* what the command's async function returned or threw

vars == <<file, lastGenerated, cmd, pc, exitCode, stdout, stderr, keypair,
          loadKeypairCalls, log, pending, retryCount, maxRetries,
          airdropSignature, balance, confirmedSignatures, result>>

locals == <<retryCount, maxRetries, airdropSignature, balance, confirmedSignatures>>

\* log entries
Event(ev, op, sig, msg, ms) == [ev |-> ev, op |-> op, sig |-> sig, msg |-> msg, ms |-> ms]
Call(op, sig) == Event("call", op, sig, <<>>, 0)
Ok(op, sig) == Event("ok", op, sig, <<>>, 0)
Err(op, sig, msg) == Event("err", op, sig, msg, 0)
Sleep(ms) == Event("sleep", "setTimeout", 0, <<>>, ms)
Op(op, sig) == [op |-> op, sig |-> sig]

NoResult == [kind |-> "none", sig |-> 0, error |-> <<>>]
Returned(sig) == [kind |-> "returned", sig |-> sig, error |-> <<>>]
Thrown(msg) == [kind |-> "thrown", sig |-> 0, error |-> msg]

Count(lg, ev, op) == Cardinality({i \in 1..Len(lg) : lg[i].ev = ev /\ lg[i].op = op})

Init ==
    /\ file = NoFile
    /\ lastGenerated = NoKeypair
    /\ cmd = [name |-> "none", args |-> NoArgs]
    /\ pc = "shell"
    /\ exitCode = 0
    /\ stdout = <<>> /\ stderr = <<>>
    /\ keypair = NoKeypair
    /\ loadKeypairCalls = 0
    /\ log = <<>>
    /\ pending = {}
    /\ retryCount = 0 /\ maxRetries = 0 /\ airdropSignature = 0
    /\ balance = 0
    /\ confirmedSignatures = 0
    /\ result = NoResult

\* the tool is started when no invocation is running
AtShell == pc \in {"shell", "done"}

\* a command that ends in its synchronous part: process.exit(code), or return
EndsAtOnce(name, args, code, kp, loads, out, err) ==
    /\ cmd' = [name |-> name, args |-> args]
    /\ pc' = "done"
    /\ exitCode' = code
    /\ stdout' = out /\ stderr' = err
    /\ keypair' = kp
    /\ loadKeypairCalls' = loads
    /\ log' = <<>> /\ pending' = {}
    /\ retryCount' = 0 /\ maxRetries' = 0 /\ airdropSignature' = 0
    /\ balance' = 0 /\ confirmedSignatures' = 0
    /\ result' = NoResult

\* loadKeypair ended the process: the file is absent (process.exit(1)), or
\* its content was rejected by the library (uncaught exception, status 1)
LoadFailed(name, args, kp) ==
    EndsAtOnce(name, args, 1, NoKeypair, 1, <<>>,
               IF kp.status = "exit" THEN <<"No keypair found.">>
               ELSE <<"Uncaught Error">>)

\* a command that got past validation and loadKeypair and issued its first
\* RPC call
Begins(name, args, kp, out, first, at) ==
    /\ cmd' = [name |-> name, args |-> args]
    /\ pc' = at
    /\ exitCode' = 0
    /\ stdout' = out /\ stderr' = <<>>
    /\ keypair' = kp
    /\ loadKeypairCalls' = IF kp.status = "none" THEN 0 ELSE 1
    /\ log' = <<Call(first, 0)>> /\ pending' = {Op(first, 0)}
    /\ retryCount' = 0 /\ maxRetries' = 0 /\ airdropSignature' = 0
    /\ balance' = 0 /\ confirmedSignatures' = 0
    /\ result' = NoResult

\* generateKeypair and the generate-keypair action
GenerateKeypairCmd(seed) ==
    /\ AtShell
    /\ LET kp == KeypairGenerate(seed)
       IN  /\ file' = FileOf(JSONStringify(KeypairData(kp)))
           /\ lastGenerated' = KeypairFromSecretKey(kp.secretKey)
    /\ EndsAtOnce("generate-keypair", NoArgs, 0, NoKeypair, 0,
                  <<"Public Key:", "Secret Key:">>, <<>>)

\* ------------------------------------------------------------- airdrop
\* requestAirdropWithRetry settles; the airdrop action prints the outcome
AirdropSettled(name, res, lg, out, err) ==
    /\ result' = res
    /\ log' = lg
    /\ pending' = {}
    /\ pc' = "done"
    /\ IF name # "airdrop" THEN stdout' = out /\ stderr' = err
       ELSE IF res.kind = "returned"
       THEN /\ stdout' = out \o <<"Airdrop requested. Transaction Signature:",
                                  "Airdrop confirmed.">>
            /\ stderr' = err
       ELSE /\ stdout' = out
            /\ stderr' = Append(err, "Airdrop failed:")

\* the while test of requestAirdropWithRetry and what follows it: the next
\* requestAirdrop call, or the throw after the loop
AirdropLoop(name, count, max, lg, out, err) ==
    IF LoopContinues(count, max)
    THEN /\ log' = Append(lg, Call("requestAirdrop", 0))
         /\ pending' = {Op("requestAirdrop", 0)}
         /\ pc' = "airdrop_request"
         /\ result' = NoResult
         /\ stdout' = out /\ stderr' = err
    ELSE AirdropSettled(name, Thrown(MaxRetriesError), lg, out, err)

\* the airdrop action up to its first await
AirdropCmd(arg) ==
    /\ AtShell
    /\ UNCHANGED <<file, lastGenerated>>
    /\ LET args   == [amount |-> arg, to |-> Missing]
           amount == OptionAmount(arg)
           kp     == LoadKeypair(file)
       IN  IF InvalidAmount(amount)
           THEN EndsAtOnce("airdrop", args, 1, NoKeypair, 0, <<>>,
                           <<"Invalid amount specified.">>)
           ELSE IF kp.status # "ok" THEN LoadFailed("airdrop", args, kp)
           ELSE /\ cmd' = [name |-> "airdrop", args |-> args]
                /\ exitCode' = 0
                /\ keypair' = kp
                /\ loadKeypairCalls' = 1
                /\ retryCount' = 0 /\ maxRetries' = DefaultMaxRetries
                /\ airdropSignature' = 0
                /\ balance' = 0 /\ confirmedSignatures' = 0
                /\ AirdropLoop("airdrop", 0, DefaultMaxRetries, <<>>,
                               <<"Requesting airdrop">>, <<>>)

\* requestAirdropWithRetry called with an explicit maxRetries
CallRequestAirdropWithRetry(max) ==
    /\ AtShell
    /\ UNCHANGED <<file, lastGenerated>>
    /\ cmd' = [name |-> "requestAirdropWithRetry", args |-> NoArgs]
    /\ exitCode' = 0
    /\ keypair' = NoKeypair
    /\ loadKeypairCalls' = 0
    /\ retryCount' = 0 /\ maxRetries' = max
    /\ airdropSignature' = 0
    /\ balance' = 0 /\ confirmedSignatures' = 0
    /\ AirdropLoop("requestAirdropWithRetry", 0, max, <<>>, <<>>, <<>>)

invocation == <<file, lastGenerated, cmd, exitCode, keypair, loadKeypairCalls>>

\* the catch block of requestAirdropWithRetry
AirdropCatch(message, lg) ==
    IF IsRateLimited(message)
    THEN /\ log' = Append(lg, Sleep(Delay(retryCount)))
         /\ pending' = {}
         /\ pc' = "airdrop_sleep"
         /\ stdout' = Append(stdout, "Server responded with 429 Too Many Requests.")
         /\ UNCHANGED <<stderr, result>>
    ELSE AirdropSettled(cmd.name, Thrown(message), lg, stdout, stderr)

\* connection.requestAirdrop resolves with a new signature; confirmTransaction
\* is called on it
RequestAirdropResolved ==
    /\ pc = "airdrop_request"
    /\ LET sig == Count(log, "ok", "requestAirdrop") + 1
       IN  /\ airdropSignature' = sig
           /\ log' = log \o <<Ok("requestAirdrop", sig), Call("confirmTransaction", sig)>>
           /\ pending' = {Op("confirmTransaction", sig)}
    /\ pc' = "airdrop_confirm"
    /\ UNCHANGED <<invocation, stdout, stderr, retryCount, maxRetries, balance,
                   confirmedSignatures, result>>

RequestAirdropRejected(message) ==
    /\ pc = "airdrop_request"
    /\ AirdropCatch(message, Append(log, Err("requestAirdrop", 0, message)))
    /\ UNCHANGED <<invocation, locals>>

\* a confirmTransaction failure that is not caught: the signature is returned
ConfirmAirdropRejectedIgnored(message) ==
    /\ pc = "airdrop_confirm"
    /\ AirdropSettled(cmd.name, Returned(airdropSignature),
                      Append(log, Err("confirmTransaction", airdropSignature, message)),
                      stdout, stderr)
    /\ UNCHANGED <<invocation, locals>>

\* connection.confirmTransaction resolves: return airdropSignature
ConfirmAirdropResolved ==
    /\ pc = "airdrop_confirm"
    /\ AirdropSettled(cmd.name, Returned(airdropSignature),
                      Append(log, Ok("confirmTransaction", airdropSignature)),
                      stdout, stderr)
    /\ UNCHANGED <<invocation, locals>>

\* connection.confirmTransaction rejects: the catch block
ConfirmAirdropRejected(message) ==
    /\ pc = "airdrop_confirm"
    /\ AirdropCatch(message, Append(log, Err("confirmTransaction", airdropSignature, message)))
    /\ UNCHANGED <<invocation, locals>>

\* the timer of the retry delay fires: retryCount++ and back to the while test
SleepElapsed ==
    /\ pc = "airdrop_sleep"
    /\ retryCount' = NextRetryCount(retryCount)
    /\ AirdropLoop(cmd.name, NextRetryCount(retryCount), maxRetries, log, stdout, stderr)
    /\ UNCHANGED <<invocation, maxRetries, airdropSignature, balance, confirmedSignatures>>

\* ------------------------------------------------------------- send-sol
\* sendSol settles; the send-sol action prints the outcome
SendSolSettled(res, lg) ==
    /\ result' = res
    /\ log' = lg
    /\ pending' = {}
    /\ pc' = "done"
    /\ IF res.kind = "returned"
       THEN /\ stdout' = Append(stdout, "Transfer successful. Transaction Signature:")
            /\ UNCHANGED stderr
       ELSE /\ stderr' = Append(stderr, "Transfer failed:")
            /\ UNCHANGED stdout

\* the next awaited call of sendSol
SendSolCalls(lg, op, sig, at) ==
    /\ log' = Append(lg, Call(op, sig))
    /\ pending' = {Op(op, sig)}
    /\ pc' = at
    /\ UNCHANGED <<stdout, stderr, result>>

\* the RPC calls sendSol has outstanding once it is entered
SendSolFirstCallsWithBlockhash == {Op("getBalance", 0), Op("getLatestBlockhash", 0)}
SendSolFirstCalls == {Op("getBalance", 0)}

\* the send-sol action up to its first await (connection.getBalance)
SendSolCmd(toArg, amountArg) ==
    /\ AtShell
    /\ UNCHANGED <<file, lastGenerated>>
    /\ LET args   == [amount |-> amountArg, to |-> toArg]
           amount == OptionAmount(amountArg)
           kp     == LoadKeypair(file)
       IN  IF InvalidRecipient(toArg) \/ InvalidAmount(amount)
           THEN EndsAtOnce("send-sol", args, 1, NoKeypair, 0, <<>>,
                           <<"Invalid recipient or amount specified.">>)
           ELSE IF kp.status # "ok" THEN LoadFailed("send-sol", args, kp)
           ELSE /\ cmd' = [name |-> "send-sol", args |-> args]
                /\ pc' = "send_balance"
                /\ exitCode' = 0
                /\ stdout' = <<"Sending">> /\ stderr' = <<>>
                /\ keypair' = kp
                /\ loadKeypairCalls' = 1
                /\ log' = [i \in 1..Cardinality(SendSolFirstCalls) |->
                              IF i = 1 THEN Call("getBalance", 0)
                              ELSE Call("getLatestBlockhash", 0)]
                /\ pending' = SendSolFirstCalls
                /\ retryCount' = 0 /\ maxRetries' = 0 /\ airdropSignature' = 0
                /\ balance' = 0 /\ confirmedSignatures' = 0
                /\ result' = NoResult

\* getBalance resolves: the funds check, transaction.add, then the call of
\* getLatestBlockhash; building the transfer instruction may throw
SendBalanceResolved(bal, built) ==
    /\ pc = "send_balance"
    /\ balance' = bal
    /\ LET lg == Append(log, Ok("getBalance", 0))
       IN  IF InsufficientFunds(bal, OptionAmount(cmd.args.amount).value)
           THEN SendSolSettled(Thrown(InsufficientFundsError), lg)
           ELSE IF ~built THEN SendSolSettled(Thrown(LibraryError), lg)
           ELSE SendSolCalls(lg, "getLatestBlockhash", 0, "send_blockhash")
    /\ UNCHANGED <<invocation, retryCount, maxRetries, airdropSignature, confirmedSignatures>>

\* getLatestBlockhash resolves: transaction.sign (which may throw), then the
\* call of sendTransaction
SendBlockhashResolved(signed) ==
    /\ pc = "send_blockhash"
    /\ LET lg == Append(log, Ok("getLatestBlockhash", 0))
       IN  IF ~signed THEN SendSolSettled(Thrown(LibraryError), lg)
           ELSE SendSolCalls(lg, "sendTransaction", 0, "send_transaction")
    /\ UNCHANGED <<invocation, locals>>

\* sendTransaction resolves with the signature: confirmTransaction is called
SendTransactionResolved ==
    /\ pc = "send_transaction"
    /\ SendSolCalls(Append(log, Ok("sendTransaction", 1)), "confirmTransaction", 1,
                    "send_confirm")
    /\ UNCHANGED <<invocation, locals>>

\* confirmTransaction resolves: return signature
SendConfirmResolved ==
    /\ pc = "send_confirm"
    /\ SendSolSettled(Returned(1), Append(log, Ok("confirmTransaction", 1)))
    /\ UNCHANGED <<invocation, locals>>

\* any awaited call of sendSol rejects: the error reaches the action's catch
SendSolRejected(message) ==
    /\ pc \in {"send_balance", "send_blockhash", "send_transaction", "send_confirm"}
    /\ \E op \in pending :
          SendSolSettled(Thrown(message), Append(log, Err(op.op, op.sig, message)))
    /\ UNCHANGED <<invocation, locals>>

\* ------------------------------------------------------------- balance
\* the balance action up to its first await
BalanceCmd ==
    /\ AtShell
    /\ UNCHANGED <<file, lastGenerated>>
    /\ LET kp == LoadKeypair(file)
       IN  IF kp.status # "ok" THEN LoadFailed("balance", NoArgs, kp)
           ELSE Begins("balance", NoArgs, kp, <<>>, "getBalance", "balance_query")

\* getBalance resolves: balance / LAMPORTS_PER_SOL is printed
BalanceResolved(bal) ==
    /\ pc = "balance_query"
    /\ balance' = bal
    /\ log' = Append(log, Ok("getBalance", 0))
    /\ pending' = {}
    /\ pc' = "done"
    /\ result' = Returned(0)
    /\ stdout' = Append(stdout, "Balance of Public Key")
    /\ UNCHANGED <<invocation, stderr, retryCount, maxRetries, airdropSignature,
                   confirmedSignatures>>

BalanceRejected(message) ==
    /\ pc = "balance_query"
    /\ log' = Append(log, Err("getBalance", 0, message))
    /\ pending' = {}
    /\ pc' = "done"
    /\ result' = Thrown(message)
    /\ stderr' = Append(stderr, "Failed to get balance:")
    /\ UNCHANGED <<invocation, stdout, locals>>

\* ------------------------------------------------------------- history
\* the history action up to its first await
HistoryCmd ==
    /\ AtShell
    /\ UNCHANGED <<file, lastGenerated>>
    /\ LET kp == LoadKeypair(file)
       IN  IF kp.status # "ok" THEN LoadFailed("history", NoArgs, kp)
           ELSE Begins("history", NoArgs, kp, <<>>,
                       "getConfirmedSignaturesForAddress2", "history_signatures")

\* the calls confirmedSignatures.map(async ...) has issued when Promise.all
\* is awaited: every mapper runs to its first await
MapIssues(n) == {Op("getConfirmedTransaction", i) : i \in 1..n}

\* the list query resolves with n signatures (at most limit: 10)
SignaturesResolved(n) ==
    /\ pc = "history_signatures"
    /\ n <= HistoryLimit
    /\ confirmedSignatures' = n
    /\ LET issued == MapIssues(n)
       IN  /\ log' = Append(log, Ok("getConfirmedSignaturesForAddress2", 0))
                        \o [i \in 1..Cardinality(issued) |-> Call("getConfirmedTransaction", i)]
           /\ pending' = issued
           /\ IF issued = {}
              THEN /\ pc' = "done"
                   /\ result' = Returned(0)
                   /\ stdout' = Append(stdout, "Transaction history for Public Key")
              ELSE /\ pc' = "history_transactions"
                   /\ UNCHANGED <<result, stdout>>
    /\ UNCHANGED <<invocation, stderr, retryCount, maxRetries, airdropSignature, balance>>

SignaturesRejected(message) ==
    /\ pc = "history_signatures"
    /\ log' = Append(log, Err("getConfirmedSignaturesForAddress2", 0, message))
    /\ pending' = {}
    /\ pc' = "done"
    /\ result' = Thrown(message)
    /\ stderr' = Append(stderr, "Failed to get transaction history:")
    /\ UNCHANGED <<invocation, stdout, locals>>

\* one mapper settles with outcome res (NoResult: its record was built).
\* Promise.all rejects on the first mapper that throws and resolves when all
\* have returned; calls still outstanding after a rejection run to their end
\* before the process exits.
MapperSettled(op, res, lg) ==
    /\ log' = lg
    /\ pending' = pending \ {op}
    /\ IF pc = "history_draining"
       THEN /\ pc' = IF pending' = {} THEN "done" ELSE "history_draining"
            /\ UNCHANGED <<result, stdout, stderr>>
       ELSE IF res.kind = "thrown"
       THEN /\ pc' = IF pending' = {} THEN "done" ELSE "history_draining"
            /\ result' = res
            /\ stderr' = Append(stderr, "Failed to get transaction history:")
            /\ UNCHANGED stdout
       ELSE IF pending' = {}
       THEN /\ pc' = "done"
            /\ result' = Returned(0)
            /\ stdout' = Append(stdout, "Transaction history for Public Key")
            /\ UNCHANGED stderr
       ELSE UNCHANGED <<pc, result, stdout, stderr>>

\* getConfirmedTransaction resolves, with a transaction or with null (tx.slot
\* then throws a TypeError)
TransactionResolved(i, found) ==
    /\ pc \in {"history_transactions", "history_draining"}
    /\ Op("getConfirmedTransaction", i) \in pending
    /\ MapperSettled(Op("getConfirmedTransaction", i),
                     IF found THEN NoResult ELSE Thrown(NullTransactionError),
                     Append(log, Ok("getConfirmedTransaction", i)))
    /\ UNCHANGED <<invocation, locals>>

TransactionRejected(i, message) ==
    /\ pc \in {"history_transactions", "history_draining"}
    /\ Op("getConfirmedTransaction", i) \in pending
    /\ MapperSettled(Op("getConfirmedTransaction", i), Thrown(message),
                     Append(log, Err("getConfirmedTransaction", i, message)))
    /\ UNCHANGED <<invocation, locals>>

\* ------------------------------------------------------------- specification
Next ==
    \/ \E seed \in Seeds : GenerateKeypairCmd(seed)
    \/ \E arg \in AmountArgs : AirdropCmd(arg)
    \/ \E max \in 0..MaxRetriesArg : CallRequestAirdropWithRetry(max)
    \/ RequestAirdropResolved
    \/ \E message \in ErrorMessages : RequestAirdropRejected(message)
    \/ ConfirmAirdropResolved
    \/ \E message \in ErrorMessages : ConfirmAirdropRejected(message)
    \/ SleepElapsed
    \/ \E toArg \in ToArgs, amountArg \in AmountArgs : SendSolCmd(toArg, amountArg)
    \/ \E bal \in Balances, built \in BOOLEAN : SendBalanceResolved(bal, built)
    \/ \E signed \in BOOLEAN : SendBlockhashResolved(signed)
    \/ SendTransactionResolved
    \/ SendConfirmResolved
    \/ \E message \in ErrorMessages : SendSolRejected(message)
    \/ BalanceCmd
    \/ \E bal \in Balances : BalanceResolved(bal)
    \/ \E message \in ErrorMessages : BalanceRejected(message)
    \/ HistoryCmd
    \/ \E n \in 0..MaxSigs : SignaturesResolved(n)
    \/ \E message \in ErrorMessages : SignaturesRejected(message)
    \/ \E i \in 1..MaxSigs, found \in BOOLEAN : TransactionResolved(i, found)
    \/ \E i \in 1..MaxSigs, message \in ErrorMessages : TransactionRejected(i, message)

Spec == Init /\ [][Next]_vars

\* ------------------------------------------------------------- properties
\* the invocation is inside requestAirdropWithRetry, or has left it
AirdropEntered ==
    /\ cmd.name \in {"airdrop", "requestAirdropWithRetry"}
    /\ (log # <<>> \/ result.kind # "none")

Indices(ev, op) == {i \in 1..Len(log) : log[i].ev = ev /\ log[i].op = op}
Failures == {i \in 1..Len(log) : log[i].ev = "err"}
RateLimited == {i \in Failures : Includes(log[i].msg, RateLimitSignal)}
Slept == SelectSeq(log, LAMBDA e : e.ev = "sleep")
Attempts == Cardinality(Indices("call", "requestAirdrop"))
Last == log[Len(log)]

\* C1: when the first K attempts of requestAirdropWithRetry fail rate-limited
\* and the next one succeeds, the call returns after exactly K+1 attempts
\* (K < maxRetries) and the delays slept, each between a failure and the next
\* request, are 1000, 2000, ..., 2^(K-1) * 1000 ms in this order.
C1_SucceedsAfterKRateLimits ==
    (/\ AirdropEntered
     /\ Failures = RateLimited
     /\ Indices("ok", "confirmTransaction") # {})
    => LET K == Cardinality(Failures)
       IN  /\ result.kind = "returned"
           /\ pc = "done"
           /\ K < maxRetries
           /\ Attempts = K + 1
           /\ Len(Slept) = K
           /\ \A i \in 1..K : Slept[i].ms = (2 ^ (i - 1)) * 1000
           /\ \A i \in 1..Len(log) :
                 log[i].ev = "sleep"
                 => /\ log[i - 1].ev = "err"
                    /\ log[i + 1] = Call("requestAirdrop", 0)

C1_Witness ==
    /\ cmd.name = "requestAirdropWithRetry"
    /\ result.kind = "returned"
    /\ Cardinality(RateLimited) = 2
    /\ Attempts = 3

\* C2: one call of requestAirdropWithRetry never issues more than maxRetries
\* funding requests, and when every attempt failed rate-limited it ends with
\* the 'Max retries exceeded' error after exactly maxRetries attempts.
C2_ExhaustsAfterMaxRetries ==
    AirdropEntered
    => /\ Attempts <= maxRetries
       /\ (/\ pc = "done"
           /\ Failures = RateLimited
           /\ Indices("ok", "confirmTransaction") = {})
          => /\ result = Thrown(MaxRetriesError)
             /\ Attempts = maxRetries
             /\ Cardinality(RateLimited) = maxRetries
       /\ result = Thrown(MaxRetriesError)
          => /\ Attempts = maxRetries
             /\ Failures = RateLimited

C2_Witness ==
    /\ cmd.name = "airdrop"
    /\ result = Thrown(MaxRetriesError)
    /\ Attempts = DefaultMaxRetries

\* C3: a failure whose message does not carry the rate-limit signal ends
\* requestAirdropWithRetry at once with that same failure: nothing is
\* requested or slept after it, whichever attempt it occurs on.
C3_OtherFailurePropagates ==
    AirdropEntered
    => \A i \in Failures \ RateLimited :
          /\ i = Len(log)
          /\ pc = "done"
          /\ pending = {}
          /\ result = Thrown(log[i].msg)

C3_Witness ==
    /\ AirdropEntered
    /\ result = Thrown(NodeUnreachable)
    /\ Cardinality(RateLimited) >= 1

\* C4: requestAirdropWithRetry returns a signature only as the last step of
\* an attempt whose requestAirdrop produced it and whose confirmTransaction
\* resolved; a confirmed signature is returned at once, and a signature whose
\* confirmation failed is never returned.
C4_ReturnsConfirmedSignature ==
    AirdropEntered
    => /\ result.kind = "returned"
          => /\ Len(log) >= 4
             /\ pc = "done" /\ pending = {}
             /\ Last = Ok("confirmTransaction", result.sig)
             /\ log[Len(log) - 1] = Call("confirmTransaction", result.sig)
             /\ log[Len(log) - 2] = Ok("requestAirdrop", result.sig)
             /\ log[Len(log) - 3] = Call("requestAirdrop", 0)
       /\ \A i \in Indices("ok", "confirmTransaction") :
             i = Len(log) /\ result = Returned(log[i].sig)
       /\ \A i \in Indices("err", "confirmTransaction") :
             result # Returned(log[i].sig)

C4_Witness ==
    /\ AirdropEntered
    /\ result.kind = "returned"
    /\ Indices("err", "confirmTransaction") # {}

\* C5: with no keypair file, airdrop, send-sol, balance and history end with
\* a message on the error stream and exit status 1, and issue no RPC call.
C5_NoKeypairFailsCleanly ==
    (cmd.name \in {"airdrop", "send-sol", "balance", "history"} /\ ~file.exists)
    => /\ pc = "done"
       /\ exitCode = 1
       /\ Len(stderr) = 1
       /\ stderr[1] \in {"No keypair found.", "Invalid amount specified.",
                         "Invalid recipient or amount specified."}
       /\ log = <<>>
       /\ pending = {}

C5_Witness ==
    /\ cmd.name = "history"
    /\ ~file.exists
    /\ loadKeypairCalls = 1
    /\ stderr = <<"No keypair found.">>

\* C6: once a keypair was generated, the file holds what the latest
\* generate-keypair wrote and loading it yields exactly that public/secret
\* key pair, after any other commands, failed or not.
C6_LoadReproducesLastGenerated ==
    lastGenerated.status = "ok"
    => /\ file.exists
       /\ LoadKeypair(file) = lastGenerated
       /\ JSONParse(file.text).publicKey = ToBase58(lastGenerated.publicKey)
       /\ keypair.status # "none" => keypair = lastGenerated

C6_Witness ==
    /\ lastGenerated.status = "ok"
    /\ lastGenerated.secretKey[1] = 0
    /\ cmd.name = "airdrop"
    /\ result.kind = "thrown"
    /\ keypair = lastGenerated

\* C7: airdrop without --amount or with one that is not a number, and
\* send-sol without --to, without --amount or with one that is not a number,
\* exit with status 1 before loadKeypair and before any RPC call.
C7_InvalidArgumentsExitEarly ==
    LET amount == cmd.args.amount
        bad    == ~amount.given \/ ParseFloat(amount.text).type = "nan"
    IN  (\/ cmd.name = "airdrop" /\ bad
         \/ cmd.name = "send-sol" /\ (bad \/ ~cmd.args.to.given))
        => /\ pc = "done"
           /\ exitCode = 1
           /\ stderr # <<>>
           /\ loadKeypairCalls = 0
           /\ log = <<>>
           /\ pending = {}

C7_Witness ==
    /\ cmd.name = "send-sol"
    /\ cmd.args.to = Text(<<"B", "o", "b">>)
    /\ cmd.args.amount = Text(<<"a", "b", "c">>)
    /\ file.exists
    /\ exitCode = 1

\* C8 as stated: at most one RPC call is outstanding at any time, in every
\* command.
C8_AtMostOneOutstanding == Cardinality(pending) <= 1

\* C8, amended: outside history at most one RPC call is outstanding and each
\* call is issued after the previous one resolved (or after the retry delay);
\* history has its list query outstanding alone, and afterwards only
\* getConfirmedTransaction calls, one per listed signature, together.
C8_OnlyHistoryFetchesTogether ==
    /\ cmd.name # "history"
       => /\ Cardinality(pending) <= 1
          /\ \A i \in 2..Len(log) :
                log[i].ev = "call" => log[i - 1].ev \in {"ok", "sleep"}
    /\ cmd.name = "history"
       => \/ pending \subseteq {Op("getConfirmedSignaturesForAddress2", 0)}
          \/ /\ Indices("ok", "getConfirmedSignaturesForAddress2") # {}
             /\ pending \subseteq
                   {Op("getConfirmedTransaction", i) : i \in 1..confirmedSignatures}

C8_Witness ==
    /\ cmd.name = "history"
    /\ Cardinality(pending) = 2
    /\ pc = "history_transactions"

\* C9: every rate-limited failure is followed at once by a sleep of
\* 2^(k-1) * 1000 ms (k-th such failure), the last permitted attempt
\* included: on exhaustion the last thing that happened is the sleep of
\* 2^(maxRetries-1) * 1000 ms; with maxRetries = 0 the call fails with the
\* exhaustion error without any request or sleep.
C9_EveryRateLimitFailureSleeps ==
    AirdropEntered
    => /\ \A i \in RateLimited :
             /\ i < Len(log)
             /\ log[i + 1] =
                   Sleep((2 ^ (Cardinality({j \in RateLimited : j < i}))) * 1000)
       /\ Len(Slept) = Cardinality(RateLimited)
       /\ (result = Thrown(MaxRetriesError) /\ maxRetries > 0)
          => Last = Sleep((2 ^ (maxRetries - 1)) * 1000)
       /\ maxRetries = 0
          => pc = "done" /\ result = Thrown(MaxRetriesError) /\ log = <<>>

C9_Witness ==
    /\ cmd.name = "requestAirdropWithRetry"
    /\ maxRetries = MaxRetriesArg
    /\ result = Thrown(MaxRetriesError)
    /\ Len(Slept) = MaxRetriesArg

C9_WitnessZero ==
    /\ cmd.name = "requestAirdropWithRetry"
    /\ maxRetries = 0
    /\ result = Thrown(MaxRetriesError)

\* C10: sendSol submits no transfer when the queried balance is below the
\* amount in lamports (it fails with 'Insufficient funds.' right after the
\* balance query), submits at most one transaction per invocation, and stops
\* at the first failure of any call.
C10_NoTransferOnInsufficientFunds ==
    cmd.name = "send-sol"
    => /\ Cardinality(Indices("call", "sendTransaction")) <= 1
       /\ (/\ Indices("ok", "getBalance") # {}
           /\ balance < ParseFloat(cmd.args.amount.text).value * LAMPORTS_PER_SOL)
          => /\ pc = "done"
             /\ result = Thrown(InsufficientFundsError)
             /\ Len(log) = 2
             /\ Indices("call", "getLatestBlockhash") = {}
             /\ Indices("call", "sendTransaction") = {}
       /\ \A i \in Failures : i = Len(log) /\ pc = "done" /\ pending = {}

C10_Witness ==
    /\ cmd.name = "send-sol"
    /\ balance = 999999999
    /\ result = Thrown(InsufficientFundsError)

====
